---- MODULE Spec2Model ----
(***************************************************************************)
(* The OMMS console (Vue single-page application).  One page component is  *)
(* mounted at a time under the router; each page keeps its state in refs   *)
(* created by its setup script, so a page's state is re-created whenever   *)
(* the page is mounted again.  localStorage and pending setTimeout         *)
(* callbacks outlive the pages.                                            *)
(*                                                                         *)
(* String literals of the source that are not ASCII are written in ASCII:  *)
(*   "admin_role"  the role name on part_003:103          (id 1)           *)
(*   "user_role"   the role name on part_003:109          (id 2)           *)
(*   "sys_admin"   the role description on part_003:104                    *)
(*   "plain_user"  the role description on part_003:110                    *)
(*   "sys_manager" the profile's name on layout/index.vue:606              *)
(*   "super_admin" the profile's role on layout/index.vue:609              *)
(***************************************************************************)
EXTENDS Naturals, Sequences, FiniteSets

VARIABLES
    route,       \* the path the router is at
    token,       \* localStorage item 'token' ("" when absent)
    login,       \* login page: loginForm, loading
    timers,      \* setTimeout callbacks pending for the mounted login page
    staleTimers, \* setTimeout callbacks pending for unmounted login pages
    role,        \* role page: its refs and the el-tree's checked leaves
    permission,  \* permission page: its refs
    user,        \* user page: its refs
    roleList,    \* role page: searchForm and the pagination refs
    layout,      \* layout: profileDrawerVisible, userProfile
    drawer,      \* CommonDrawer of the layout: prop, visible, watchers, events
    sent,        \* the requests the last handler sent (none: {})
    userActions, \* history: the clicks made on the drawer and its menu entry
    error,       \* the error the last handler raised or surfaced ("none")
    lastOp,      \* history: the last create/update/delete/assign handler run
    savedRoles   \* history: role ids savePermissions has been run for

vars == <<route, token, login, timers, staleTimers, role, permission, user,
          roleList, layout, drawer, sent, userActions, error, lastOp,
          savedRoles>>

----------------------------------------------------------------------------
(* Bounds.                                                                 *)

\* pending login timers at any one time
MaxPending == 2

\* of each group of the permission tree, the leaves the user toggles
MaxLeaf == 2

\* the pages of the pager the user clicks on
MaxPage == 4

\* the clicks on the drawer's buttons and on the menu entry that opens it
MaxActions == 3

----------------------------------------------------------------------------
(* Router: router/index.ts.                                                *)

Paths == {"/", "/login", "/dashboard", "/user", "/role", "/permission", "/gpu"}

\* '/' redirects to '/dashboard'; every other path is kept as typed.
Resolve(p) == IF p = "/" THEN "/dashboard" ELSE p

\* The view a resolved path is rendered by.
View(p) ==
    CASE p = "/login"      -> "Login"
      [] p = "/dashboard"  -> "Dashboard"
      [] p = "/user"       -> "user"
      [] p = "/role"       -> "role"
      [] p = "/permission" -> "permission"
      [] OTHER             -> "NotFound"

----------------------------------------------------------------------------
(* Login page: part_002.                                                   *)

UsernameInputs == {"", "ab", "admin"}
PasswordInputs == {"", "12345", "123456"}

LoginInit == [loginForm |-> [username |-> "", password |-> ""],
              loading   |-> FALSE]

\* loginRules: required, username 3..50 characters, password >= 6.
UsernameMin == 3
UsernameMax == 50
PasswordMin == 6

Valid(f) ==
    /\ f.username # ""
    /\ Len(f.username) >= UsernameMin
    /\ Len(f.username) <= UsernameMax
    /\ f.password # ""
    /\ Len(f.password) >= PasswordMin

----------------------------------------------------------------------------
(* Role page: part_003 lines 1..204.                                       *)

RoleTableInit ==
    << [id |-> 1, name |-> "admin_role", description |-> "sys_admin"],
       [id |-> 2, name |-> "user_role",  description |-> "plain_user"] >>

\* permissionData: the groups and their leaves, in source order.
PermissionData ==
    << [id |-> 1, children |-> <<11, 12, 13, 14>>],
       [id |-> 2, children |-> <<21, 22, 23, 24>>] >>

Range(s) == {s[i] : i \in DOMAIN s}

LeafIds == UNION {Range(PermissionData[g].children) : g \in DOMAIN PermissionData}

\* The leaves the model lets the user toggle.
ToggleIds ==
    UNION {{PermissionData[g].children[i] :
              i \in {j \in DOMAIN PermissionData[g].children : j <= MaxLeaf}} :
           g \in DOMAIN PermissionData}

CheckedPermissionsInit == {11, 21}

RoleInit ==
    [tableData               |-> RoleTableInit,
     dialogVisible           |-> FALSE,
     dialogType              |-> "add",
     form                    |-> [id |-> 0, name |-> "", description |-> ""],
     permissionDialogVisible |-> FALSE,
     currentRoleId           |-> 0,
     checkedPermissions      |-> CheckedPermissionsInit,
     treeChecked             |-> CheckedPermissionsInit]

NameInputs == {"admin_role", "user_role", "guest"}
DescriptionInputs == {"sys_admin"}

RoleIds   == {role.tableData[i].id : i \in DOMAIN role.tableData}
RoleNames == {role.tableData[i].name : i \in DOMAIN role.tableData}

\* What the page presents as the permission set of role id: the el-tree is
\* given checkedPermissions whatever the role (handlePermission loads nothing).
GetRolePermissions(id) == role.checkedPermissions

\* The role the permission dialog is bound to, paired with each permission id
\* the page holds for it.
AssignmentRows ==
    IF role.currentRoleId = 0 THEN {}
    ELSE {<<role.currentRoleId, p>> : p \in role.checkedPermissions}

\* The leaf of permissionData named after the action of a role handler:
\* 22 create role, 23 edit role, 24 delete role.
RequiredPermission(op, dialogType) ==
    CASE op = "role.submitForm" /\ dialogType = "add" -> 22
      [] op = "role.submitForm" /\ dialogType # "add" -> 23
      [] OTHER                                        -> 24

NoOp == [op |-> "none", id |-> 0, again |-> FALSE]

\* The handlers that stand for a create, update, delete or assignment.
MutatingOps ==
    {"role.submitForm", "role.handleDelete", "role.savePermissions",
     "permission.submitForm", "permission.handleDelete",
     "user.submitForm", "user.handleDelete"}

----------------------------------------------------------------------------
(* Permission page: part_003 lines 226..384.                               *)

PermissionTableInit ==
    << [id |-> 1, code |-> "user:view",   name |-> "view_user"],
       [id |-> 2, code |-> "user:create", name |-> "create_user"] >>

PermissionInit ==
    [tableData     |-> PermissionTableInit,
     dialogVisible |-> FALSE,
     dialogType    |-> "add",
     form          |-> [id |-> 0, code |-> "", name |-> ""]]

CodeInputs == {"user:view", "role:edit"}

----------------------------------------------------------------------------
(* User page: part_001.                                                    *)

UserTableInit ==
    << [id |-> 1, username |-> "admin", email |-> "admin@example.com",
        fullName |-> "administrator", isActive |-> TRUE] >>

UserInit ==
    [tableData     |-> UserTableInit,
     dialogVisible |-> FALSE,
     dialogType    |-> "add",
     form          |-> [id |-> 0, username |-> "", email |-> "",
                        password |-> "", fullName |-> "", isActive |-> TRUE]]

UserNameInputs == {"admin", "bob"}
UserPasswordInputs == {"secret1", "secret2"}

----------------------------------------------------------------------------
(* Role page, list controls: part_003 lines 13..50, 94..118, 158..175.     *)

PageSizes == {10, 20, 50, 100}

SearchInputs == {"admin", "ADMIN", "guest"}

\* Case folding, on the strings the model uses.
Lower(str) == IF str = "ADMIN" THEN "admin" ELSE str

\* f occurs in str as a substring.
Contains(str, f) ==
    \E i \in 1..(Len(str) + 1 - Len(f)) : SubSeq(str, i, i + Len(f) - 1) = f

\* The rows the el-table shows: :data="tableData".
Displayed == role.tableData

RoleListInit ==
    [searchForm |-> [name |-> ""], currentPage |-> 1, pageSize |-> 10,
     total |-> 100]

----------------------------------------------------------------------------
(* Layout and its CommonDrawer: layout/index.vue, CommonDrawer.vue.        *)

LayoutInit ==
    [profileDrawerVisible |-> FALSE,
     userProfile |-> [username |-> "admin",
                      name     |-> "sys_manager",
                      email    |-> "admin@example.com",
                      phone    |-> "13800138000",
                      role     |-> "super_admin"]]

\* What the user types in the profile form's three enabled inputs.
ProfileInputs ==
    [name  |-> {"sys_manager", "alice"},
     email |-> {"admin@example.com", "alice@example.com"},
     phone |-> {"13800138000", "13900139000"}]

\* The drawer is created with the parent's value: visible = ref(props.modelValue).
\* seenModelValue and seenVisible are the values the two watchers last saw.
\* created keeps the modelValue the drawer was created with.
DrawerCreated(val) ==
    [modelValue     |-> val,
     visible        |-> val,
     seenModelValue |-> val,
     seenVisible    |-> val,
     events         |-> << >>,
     created        |-> val]

DrawerInit == DrawerCreated(LayoutInit.profileDrawerVisible)

\* The layout holds every view but the login view.
InLayout(p) == View(p) # "Login"

----------------------------------------------------------------------------

Init ==
    /\ route = "/dashboard"
    /\ token = ""
    /\ login = LoginInit
    /\ timers = 0
    /\ staleTimers = 0
    /\ role = RoleInit
    /\ permission = PermissionInit
    /\ user = UserInit
    /\ roleList = RoleListInit
    /\ layout = LayoutInit
    /\ drawer = DrawerInit
    /\ sent = {}
    /\ userActions = 0
    /\ error = "none"
    /\ lastOp = NoOp
    /\ savedRoles = {}

\* Leaving a route unmounts its page; entering one runs the page's setup.
Mount(p) ==
    /\ route' = p
    /\ login' = LoginInit
    /\ role' = RoleInit
    /\ permission' = PermissionInit
    /\ user' = UserInit
    /\ roleList' = RoleListInit
    /\ IF InLayout(p) /\ InLayout(route)
         THEN UNCHANGED <<layout, drawer>>
         ELSE layout' = LayoutInit /\ drawer' = DrawerInit

\* A handler that is none of submitForm, handleDelete, savePermissions:
\* it raises nothing and asks for no create, update, delete or assignment.
Plain ==
    /\ sent' = {}
    /\ error' = "none"
    /\ lastOp' = NoOp
    /\ UNCHANGED savedRoles

\* Such a handler, recorded under its name in lastOp.
Recorded(name) ==
    /\ sent' = {}
    /\ error' = "none"
    /\ lastOp' = [op |-> name, id |-> 0, again |-> FALSE]
    /\ UNCHANGED savedRoles

\* The user follows a link or types a path; no navigation guard is installed.
\* The timers of the login page that is unmounted stay pending.
Navigate(p) ==
    /\ Resolve(p) # route
    /\ Mount(Resolve(p))
    /\ staleTimers' = staleTimers + timers
    /\ timers' = 0
    /\ Plain
    /\ UNCHANGED <<token, userActions>>

----------------------------------------------------------------------------
(* Login page handlers.                                                    *)

InputUsername(u) ==
    /\ View(route) = "Login"
    /\ login' = [login EXCEPT !.loginForm.username = u]
    /\ Plain
    /\ UNCHANGED <<route, token, timers, staleTimers, role, permission, user,
                 roleList, layout, drawer, userActions>>

InputPassword(p) ==
    /\ View(route) = "Login"
    /\ login' = [login EXCEPT !.loginForm.password = p]
    /\ Plain
    /\ UNCHANGED <<route, token, timers, staleTimers, role, permission, user,
                 roleList, layout, drawer, userActions>>

\* handleLogin as if it did not wait for the validation result.
handleLoginUnvalidated ==
    /\ View(route) = "Login"
    /\ timers + staleTimers < MaxPending
    /\ login' = [login EXCEPT !.loading = TRUE]
    /\ timers' = timers + 1
    /\ Plain
    /\ UNCHANGED <<route, token, staleTimers, role, permission, user, roleList,
                   layout, drawer, userActions>>

\* The login button and Enter in the password field; neither is disabled
\* while loading.  The credentials are compared with nothing.
handleLogin ==
    /\ View(route) = "Login"
    /\ \/ /\ Valid(login.loginForm)
          /\ timers + staleTimers < MaxPending
          /\ login' = [login EXCEPT !.loading = TRUE]
          /\ timers' = timers + 1
       \/ /\ ~Valid(login.loginForm)
          /\ UNCHANGED <<login, timers>>
    /\ Plain
    /\ UNCHANGED <<route, token, staleTimers, role, permission, user, roleList,
                 layout, drawer, userActions>>

\* The callback as if the first one to run cancelled the page's other timers.
LoginTimerClearing ==
    /\ timers > 0
    /\ token' = "mock-token"
    /\ Mount(Resolve("/"))
    /\ staleTimers' = staleTimers
    /\ timers' = 0
    /\ Plain
    /\ UNCHANGED userActions

\* The setTimeout callback of the mounted login page: loading.value = false,
\* localStorage.setItem('token', 'mock-token'), router.push('/').
LoginTimer ==
    /\ timers > 0
    /\ token' = "mock-token"
    /\ Mount(Resolve("/"))
    /\ staleTimers' = staleTimers + (timers - 1)
    /\ timers' = 0
    /\ Plain
    /\ UNCHANGED userActions

\* The same callback of a login page that is no longer mounted: its loading
\* ref is no longer rendered; router.push('/') to the current route is ignored.
StaleLoginTimer ==
    /\ staleTimers > 0
    /\ token' = "mock-token"
    /\ IF route = Resolve("/")
         THEN UNCHANGED <<route, login, role, permission, user, roleList,
                          layout, drawer, timers,
                          userActions>>
              /\ staleTimers' = staleTimers - 1
         ELSE Mount(Resolve("/"))
              /\ staleTimers' = (staleTimers - 1) + timers
              /\ timers' = 0
              /\ UNCHANGED userActions
    /\ Plain

----------------------------------------------------------------------------
(* Role page handlers.  The dialogs are modal: while one is open only its  *)
(* own controls can be used.                                               *)

RolePage == View(route) = "role"
RoleIdle == RolePage /\ ~role.dialogVisible /\ ~role.permissionDialogVisible

RoleFrame ==
    UNCHANGED <<route, token, login, timers, staleTimers, permission, user,
                roleList, layout, drawer, userActions>>

\* line 7: @click="dialogVisible = true"
RoleAdd ==
    /\ RoleIdle
    /\ role' = [role EXCEPT !.dialogVisible = TRUE]
    /\ Recorded("role.add")
    /\ RoleFrame

RoleHandleEdit(row) ==
    /\ RoleIdle
    /\ role' = [role EXCEPT !.dialogType = "edit",
                            !.form = [id |-> row.id, name |-> row.name,
                                      description |-> row.description],
                            !.dialogVisible = TRUE]
    /\ Plain
    /\ RoleFrame

\* v-model of the two inputs of the dialog
RoleInputName(n) ==
    /\ RolePage /\ role.dialogVisible
    /\ role' = [role EXCEPT !.form.name = n]
    /\ Plain
    /\ RoleFrame

RoleInputDescription(d) ==
    /\ RolePage /\ role.dialogVisible
    /\ role' = [role EXCEPT !.form.description = d]
    /\ Plain
    /\ RoleFrame

\* line 64, and the dialog's own close controls through v-model
RoleCancel ==
    /\ RolePage /\ role.dialogVisible
    /\ role' = [role EXCEPT !.dialogVisible = FALSE]
    /\ Plain
    /\ RoleFrame

\* submitForm as if it stored the form in the table with no check of the name.
RoleSubmitFormStoring ==
    /\ RolePage /\ role.dialogVisible
    /\ role' = [role EXCEPT
         !.dialogVisible = FALSE,
         !.tableData =
            IF role.dialogType = "add"
              THEN Append(role.tableData,
                          [id |-> Len(role.tableData) + 1,
                           name |-> role.form.name,
                           description |-> role.form.description])
              ELSE [i \in DOMAIN role.tableData |->
                      IF role.tableData[i].id = role.form.id
                        THEN [role.tableData[i] EXCEPT
                                !.name = role.form.name,
                                !.description = role.form.description]
                        ELSE role.tableData[i]]]
    /\ sent' = {}
    /\ error' = "none"
    /\ lastOp' = [op |-> "role.submitForm", id |-> role.form.id, again |-> FALSE]
    /\ UNCHANGED savedRoles
    /\ RoleFrame

\* submitForm: closes the dialog; nothing is sent, checked or stored.
RoleSubmitForm ==
    /\ RolePage /\ role.dialogVisible
    /\ role' = [role EXCEPT !.dialogVisible = FALSE]
    /\ sent' = {}
    /\ error' = "none"
    /\ lastOp' = [op |-> "role.submitForm", id |-> role.form.id, again |-> FALSE]
    /\ UNCHANGED savedRoles
    /\ RoleFrame

\* handleDelete as if it removed the row and nothing else.
RoleHandleDeleteRowOnly(row) ==
    /\ RoleIdle
    /\ role' = [role EXCEPT !.tableData =
                  SelectSeq(role.tableData, LAMBDA r : r.id # row.id)]
    /\ sent' = {}
    /\ error' = "none"
    /\ lastOp' = [op |-> "role.handleDelete", id |-> row.id, again |-> FALSE]
    /\ UNCHANGED savedRoles
    /\ RoleFrame

\* handleDelete: an empty body.
RoleHandleDelete(row) ==
    /\ RoleIdle
    /\ UNCHANGED role
    /\ sent' = {}
    /\ error' = "none"
    /\ lastOp' = [op |-> "role.handleDelete", id |-> row.id, again |-> FALSE]
    /\ UNCHANGED savedRoles
    /\ RoleFrame

\* handlePermission: the role's permissions are not loaded.
handlePermission(row) ==
    /\ RoleIdle
    /\ role' = [role EXCEPT !.currentRoleId = row.id,
                            !.permissionDialogVisible = TRUE]
    /\ Plain
    /\ RoleFrame

\* A click on the checkbox of a leaf of the el-tree.
ToggleNode(k) ==
    /\ RolePage /\ role.permissionDialogVisible
    /\ role' = [role EXCEPT !.treeChecked =
                  IF k \in role.treeChecked THEN role.treeChecked \ {k}
                                            ELSE role.treeChecked \cup {k}]
    /\ Plain
    /\ RoleFrame

\* line 82, and the dialog's own close controls through v-model
CancelPermissions ==
    /\ RolePage /\ role.permissionDialogVisible
    /\ role' = [role EXCEPT !.permissionDialogVisible = FALSE]
    /\ Plain
    /\ RoleFrame

\* savePermissions as if it cleared the stored set and stopped there.
savePermissionsDeleteOnly ==
    /\ RolePage /\ role.permissionDialogVisible
    /\ role' = [role EXCEPT !.permissionDialogVisible = FALSE,
                            !.checkedPermissions = {}]
    /\ sent' = {}
    /\ error' = "none"
    /\ lastOp' = [op |-> "role.savePermissions", id |-> role.currentRoleId,
                  again |-> role.currentRoleId \in savedRoles]
    /\ savedRoles' = savedRoles \cup {role.currentRoleId}
    /\ RoleFrame

\* savePermissions as if it stored the checked leaves of the tree.
savePermissionsStoring ==
    /\ RolePage /\ role.permissionDialogVisible
    /\ role' = [role EXCEPT !.permissionDialogVisible = FALSE,
                            !.checkedPermissions = role.treeChecked]
    /\ sent' = {}
    /\ error' = "none"
    /\ lastOp' = [op |-> "role.savePermissions", id |-> role.currentRoleId,
                  again |-> role.currentRoleId \in savedRoles]
    /\ savedRoles' = savedRoles \cup {role.currentRoleId}
    /\ RoleFrame

\* savePermissions as if it reloaded the table after saving and got no rows.
savePermissionsReloading ==
    /\ RolePage /\ role.permissionDialogVisible
    /\ role' = [role EXCEPT !.permissionDialogVisible = FALSE,
                            !.tableData = << >>]
    /\ sent' = {}
    /\ error' = "none"
    /\ lastOp' = [op |-> "role.savePermissions", id |-> role.currentRoleId,
                  again |-> role.currentRoleId \in savedRoles]
    /\ savedRoles' = savedRoles \cup {role.currentRoleId}
    /\ RoleFrame

\* savePermissions: closes the dialog; the tree is not read, nothing is sent
\* or stored.
savePermissions ==
    /\ RolePage /\ role.permissionDialogVisible
    /\ role' = [role EXCEPT !.permissionDialogVisible = FALSE]
    /\ sent' = {}
    /\ error' = "none"
    /\ lastOp' = [op |-> "role.savePermissions", id |-> role.currentRoleId,
                  again |-> role.currentRoleId \in savedRoles]
    /\ savedRoles' = savedRoles \cup {role.currentRoleId}
    /\ RoleFrame

----------------------------------------------------------------------------
(* Permission page handlers.                                               *)

PermissionPage == View(route) = "permission"
PermissionIdle == PermissionPage /\ ~permission.dialogVisible

PermissionFrame ==
    UNCHANGED <<route, token, login, timers, staleTimers, role, user,
                roleList, layout, drawer, userActions>>

\* line 232: @click="dialogVisible = true"
PermissionAdd ==
    /\ PermissionIdle
    /\ permission' = [permission EXCEPT !.dialogVisible = TRUE]
    /\ Recorded("permission.add")
    /\ PermissionFrame

PermissionHandleEdit(row) ==
    /\ PermissionIdle
    /\ permission' = [permission EXCEPT
                        !.dialogType = "edit",
                        !.form = [id |-> row.id, code |-> row.code,
                                  name |-> row.name],
                        !.dialogVisible = TRUE]
    /\ Plain
    /\ PermissionFrame

\* v-model of the code input of the dialog; it is editable in both modes
PermissionInputCode(c) ==
    /\ PermissionPage /\ permission.dialogVisible
    /\ permission' = [permission EXCEPT !.form.code = c]
    /\ Plain
    /\ PermissionFrame

PermissionCancel ==
    /\ PermissionPage /\ permission.dialogVisible
    /\ permission' = [permission EXCEPT !.dialogVisible = FALSE]
    /\ Plain
    /\ PermissionFrame

\* submitForm as if an edit stored the form's code in the edited row.
PermissionSubmitFormStoring ==
    /\ PermissionPage /\ permission.dialogVisible
    /\ permission' = [permission EXCEPT
         !.dialogVisible = FALSE,
         !.tableData = [i \in DOMAIN permission.tableData |->
                          IF permission.tableData[i].id = permission.form.id
                            THEN [permission.tableData[i] EXCEPT
                                    !.code = permission.form.code]
                            ELSE permission.tableData[i]]]
    /\ sent' = {}
    /\ error' = "none"
    /\ lastOp' = [op |-> "permission.submitForm", id |-> permission.form.id,
                  again |-> FALSE]
    /\ UNCHANGED savedRoles
    /\ PermissionFrame

\* submitForm: closes the dialog; nothing is sent, checked or stored.
PermissionSubmitForm ==
    /\ PermissionPage /\ permission.dialogVisible
    /\ permission' = [permission EXCEPT !.dialogVisible = FALSE]
    /\ sent' = {}
    /\ error' = "none"
    /\ lastOp' = [op |-> "permission.submitForm", id |-> permission.form.id,
                  again |-> FALSE]
    /\ UNCHANGED savedRoles
    /\ PermissionFrame

\* handleDelete: an empty body.
PermissionHandleDelete(row) ==
    /\ PermissionIdle
    /\ UNCHANGED permission
    /\ sent' = {}
    /\ error' = "none"
    /\ lastOp' = [op |-> "permission.handleDelete", id |-> row.id,
                  again |-> FALSE]
    /\ UNCHANGED savedRoles
    /\ PermissionFrame

----------------------------------------------------------------------------
(* User page handlers.                                                     *)

UserPage == View(route) = "user"
UserIdle == UserPage /\ ~user.dialogVisible

UserFrame ==
    UNCHANGED <<route, token, login, timers, staleTimers, role, permission,
                roleList, layout, drawer, userActions>>

\* part_001 add button: @click="dialogVisible = true"
UserAdd ==
    /\ UserIdle
    /\ user' = [user EXCEPT !.dialogVisible = TRUE]
    /\ Recorded("user.add")
    /\ UserFrame

\* handleEdit: the row has no password and form.password is left as it is.
UserHandleEdit(row) ==
    /\ UserIdle
    /\ user' = [user EXCEPT
                  !.dialogType = "edit",
                  !.form = [user.form EXCEPT !.id = row.id,
                                             !.username = row.username,
                                             !.email = row.email,
                                             !.fullName = row.fullName,
                                             !.isActive = row.isActive],
                  !.dialogVisible = TRUE]
    /\ Plain
    /\ UserFrame

UserInputUsername(u) ==
    /\ UserPage /\ user.dialogVisible
    /\ user' = [user EXCEPT !.form.username = u]
    /\ Plain
    /\ UserFrame

\* the password item is rendered only when dialogType is 'add'
UserInputPassword(w) ==
    /\ UserPage /\ user.dialogVisible
    /\ user.dialogType = "add"
    /\ user' = [user EXCEPT !.form.password = w]
    /\ Plain
    /\ UserFrame

UserCancel ==
    /\ UserPage /\ user.dialogVisible
    /\ user' = [user EXCEPT !.dialogVisible = FALSE]
    /\ Plain
    /\ UserFrame

\* submitForm as if it put the whole form, password included, in the table.
UserSubmitFormStoring ==
    /\ UserPage /\ user.dialogVisible
    /\ user' = [user EXCEPT
                  !.dialogVisible = FALSE,
                  !.tableData = Append(user.tableData, user.form)]
    /\ sent' = {}
    /\ error' = "none"
    /\ lastOp' = [op |-> "user.submitForm", id |-> user.form.id,
                  again |-> FALSE]
    /\ UNCHANGED savedRoles
    /\ UserFrame

\* submitForm: closes the dialog; nothing is sent, checked or stored.
UserSubmitForm ==
    /\ UserPage /\ user.dialogVisible
    /\ user' = [user EXCEPT !.dialogVisible = FALSE]
    /\ sent' = {}
    /\ error' = "none"
    /\ lastOp' = [op |-> "user.submitForm", id |-> user.form.id,
                  again |-> FALSE]
    /\ UNCHANGED savedRoles
    /\ UserFrame

\* handleDelete: an empty body.
UserHandleDelete(row) ==
    /\ UserIdle
    /\ UNCHANGED user
    /\ sent' = {}
    /\ error' = "none"
    /\ lastOp' = [op |-> "user.handleDelete", id |-> row.id, again |-> FALSE]
    /\ UNCHANGED savedRoles
    /\ UserFrame

----------------------------------------------------------------------------
(* Role page, list handlers.                                               *)

ListFrame ==
    UNCHANGED <<route, token, login, timers, staleTimers, role, permission,
                user, layout, drawer, userActions, savedRoles>>

\* v-model of the search input
RoleInputSearch(f) ==
    /\ RoleIdle
    /\ roleList' = [roleList EXCEPT !.searchForm.name = f]
    /\ sent' = {} /\ error' = "none" /\ lastOp' = NoOp
    /\ ListFrame

\* handleSearch: an empty body.
handleSearch ==
    /\ RoleIdle
    /\ UNCHANGED roleList
    /\ sent' = {} /\ error' = "none"
    /\ lastOp' = [op |-> "role.handleSearch", id |-> 0, again |-> FALSE]
    /\ ListFrame

\* resetSearch: clears the filter, then handleSearch().
resetSearch ==
    /\ RoleIdle
    /\ roleList' = [roleList EXCEPT !.searchForm.name = ""]
    /\ sent' = {} /\ error' = "none"
    /\ lastOp' = [op |-> "role.handleSearch", id |-> 0, again |-> FALSE]
    /\ ListFrame

\* handleSizeChange: nothing is reloaded.
handleSizeChange(val) ==
    /\ RoleIdle
    /\ roleList' = [roleList EXCEPT !.pageSize = val]
    /\ sent' = {} /\ error' = "none" /\ lastOp' = NoOp
    /\ ListFrame

\* handleCurrentChange: nothing is reloaded.
handleCurrentChange(val) ==
    /\ RoleIdle
    /\ roleList' = [roleList EXCEPT !.currentPage = val]
    /\ sent' = {} /\ error' = "none" /\ lastOp' = NoOp
    /\ ListFrame

----------------------------------------------------------------------------
(* Layout and CommonDrawer handlers.  A watcher runs after the value it    *)
(* watches has changed, and calls its callback when the value differs from *)
(* the one it saw last.                                                    *)

DrawerFrame ==
    UNCHANGED <<token, login, timers, staleTimers, role, permission, user,
                roleList>>

Emit(ev) == Append(drawer.events, ev)

\* No render and no watcher is pending.  Vue flushes the jobs a handler has
\* queued in a microtask, so the browser delivers the next click only when
\* none is left: every click handler below starts from such a state.
DrawerQuiescent ==
    /\ drawer.modelValue = layout.profileDrawerVisible
    /\ drawer.seenModelValue = drawer.modelValue
    /\ drawer.seenVisible = drawer.visible

\* handleCommand as if 'logout' also removed the token.
handleCommandClearingToken(command) ==
    /\ InLayout(route)
    /\ ~drawer.visible
    /\ DrawerQuiescent
    /\ userActions < MaxActions
    /\ userActions' = userActions + 1
    /\ IF command = "profile"
         THEN /\ layout' = [layout EXCEPT !.profileDrawerVisible = TRUE]
              /\ UNCHANGED <<route, drawer>>
              /\ DrawerFrame
         ELSE IF command = "logout"
           THEN /\ Mount("/login")
                /\ staleTimers' = staleTimers + timers
                /\ timers' = 0
                /\ token' = ""
           ELSE /\ UNCHANGED <<route, layout, drawer>>
                /\ DrawerFrame
    /\ Recorded("layout.handleCommand." \o command)

\* handleCommand: 'profile' opens the drawer, 'logout' goes to '/login'
\* (the token is left in localStorage), any other command does nothing.
\* The user menu is under the mask of the shown drawer (modal), so it is
\* clicked only while the drawer is hidden.
handleCommand(command) ==
    /\ InLayout(route)
    /\ ~drawer.visible
    /\ DrawerQuiescent
    /\ userActions < MaxActions
    /\ userActions' = userActions + 1
    /\ IF command = "profile"
         THEN /\ layout' = [layout EXCEPT !.profileDrawerVisible = TRUE]
              /\ UNCHANGED <<route, drawer>>
              /\ DrawerFrame
         ELSE IF command = "logout"
           THEN /\ Mount("/login")
                /\ staleTimers' = staleTimers + timers
                /\ timers' = 0
                /\ UNCHANGED token
           ELSE /\ UNCHANGED <<route, layout, drawer>>
                /\ DrawerFrame
    /\ Recorded("layout.handleCommand." \o command)

\* The index of each el-menu-item of the layout's menu.
MenuItems ==
    {"dashboard", "gpu", "cpu", "storage", "alarm", "repair-pending",
     "repair-processing", "repair-completed", "device", "supplier", "model",
     "user", "role", "permission"}

\* A click on a menu item as if a guard sent a user without token to '/login'.
MenuSelectGuarded(index) ==
    /\ InLayout(route)
    /\ ~drawer.visible
    /\ Resolve("/" \o index) # route
    /\ Mount(IF token = "" THEN "/login" ELSE Resolve("/" \o index))
    /\ staleTimers' = staleTimers + timers
    /\ timers' = 0
    /\ Recorded("layout.menu." \o index)
    /\ UNCHANGED <<token, userActions>>

\* A click on a menu item: the el-menu is in router mode and pushes the
\* item's index.  The index is a relative path; every path the model is at
\* has one segment, so it resolves to '/' followed by the index.
MenuSelect(index) ==
    /\ InLayout(route)
    /\ ~drawer.visible
    /\ Resolve("/" \o index) # route
    /\ Mount(Resolve("/" \o index))
    /\ staleTimers' = staleTimers + timers
    /\ timers' = 0
    /\ Recorded("layout.menu." \o index)
    /\ UNCHANGED <<token, userActions>>

\* The user types in an input of the profile form, shown in the drawer.
InputProfile(field, val) ==
    /\ InLayout(route)
    /\ drawer.visible
    /\ DrawerQuiescent
    /\ layout' = [layout EXCEPT !.userProfile[field] = val]
    /\ UNCHANGED <<route, drawer, userActions>>
    /\ DrawerFrame
    /\ Plain

\* The layout renders again and hands profileDrawerVisible to the drawer.
DrawerRender ==
    /\ InLayout(route)
    /\ drawer.modelValue # layout.profileDrawerVisible
    /\ drawer' = [drawer EXCEPT !.modelValue = layout.profileDrawerVisible]
    /\ UNCHANGED <<route, layout, userActions>>
    /\ DrawerFrame
    /\ Plain

\* watch(props.modelValue) as if its callback left visible alone.
WatchModelValueIgnoring ==
    /\ InLayout(route)
    /\ drawer.modelValue # drawer.seenModelValue
    /\ drawer' = [drawer EXCEPT !.seenModelValue = drawer.modelValue]
    /\ UNCHANGED <<route, layout, userActions>>
    /\ DrawerFrame
    /\ Plain

\* watch(() => props.modelValue): visible.value = val
WatchModelValue ==
    /\ InLayout(route)
    /\ drawer.modelValue # drawer.seenModelValue
    /\ drawer' = [drawer EXCEPT !.visible = drawer.modelValue,
                                !.seenModelValue = drawer.modelValue]
    /\ UNCHANGED <<route, layout, userActions>>
    /\ DrawerFrame
    /\ Plain

\* watch(visible) as if it emitted 'open' whatever the value.
WatchVisibleAlwaysOpen ==
    /\ InLayout(route)
    /\ drawer.visible # drawer.seenVisible
    /\ drawer' = [drawer EXCEPT
         !.seenVisible = drawer.visible,
         !.events = drawer.events
                      \o << <<"update:modelValue", drawer.visible>>,
                            <<"open", drawer.visible>> >>]
    /\ layout' = [layout EXCEPT !.profileDrawerVisible = drawer.visible]
    /\ UNCHANGED <<route, userActions>>
    /\ DrawerFrame
    /\ Plain

\* watch(() => visible.value): emit('update:modelValue', val), which the
\* layout's v-model stores in profileDrawerVisible, then 'close' or 'open'.
WatchVisible ==
    /\ InLayout(route)
    /\ drawer.visible # drawer.seenVisible
    /\ drawer' = [drawer EXCEPT
         !.seenVisible = drawer.visible,
         !.events = drawer.events
                      \o << <<"update:modelValue", drawer.visible>>,
                            <<IF drawer.visible THEN "open" ELSE "close",
                              drawer.visible>> >>]
    /\ layout' = [layout EXCEPT !.profileDrawerVisible = drawer.visible]
    /\ UNCHANGED <<route, userActions>>
    /\ DrawerFrame
    /\ Plain

\* handleCancel as if it only emitted 'cancel' and left the closing to the
\* parent.
handleCancelEmitOnly ==
    /\ InLayout(route)
    /\ DrawerQuiescent
    /\ userActions < MaxActions
    /\ userActions' = userActions + 1
    /\ drawer' = [drawer EXCEPT !.events = Emit(<<"cancel", FALSE>>)]
    /\ layout' = [layout EXCEPT !.profileDrawerVisible = FALSE]
    /\ UNCHANGED route
    /\ DrawerFrame
    /\ Plain

\* handleCancel: visible.value = false; emit('cancel'), on which the layout
\* runs profileDrawerVisible = false.
handleCancel ==
    /\ InLayout(route)
    /\ DrawerQuiescent
    /\ userActions < MaxActions
    /\ userActions' = userActions + 1
    /\ drawer' = [drawer EXCEPT !.visible = FALSE,
                                !.events = Emit(<<"cancel", FALSE>>)]
    /\ layout' = [layout EXCEPT !.profileDrawerVisible = FALSE]
    /\ UNCHANGED route
    /\ DrawerFrame
    /\ Plain

\* handleConfirm: emit('confirm'), on which the layout runs saveProfile:
\* profileDrawerVisible.value = false.
handleConfirm ==
    /\ InLayout(route)
    /\ drawer.visible
    /\ DrawerQuiescent
    /\ userActions < MaxActions
    /\ userActions' = userActions + 1
    /\ drawer' = [drawer EXCEPT !.events = Emit(<<"confirm", FALSE>>)]
    /\ layout' = [layout EXCEPT !.profileDrawerVisible = FALSE]
    /\ UNCHANGED route
    /\ DrawerFrame
    /\ Recorded("layout.saveProfile")

\* The el-drawer closes itself (close button, Escape, click on the mask)
\* through its v-model: visible = false.
DrawerClose ==
    /\ InLayout(route)
    /\ drawer.visible
    /\ DrawerQuiescent
    /\ userActions < MaxActions
    /\ userActions' = userActions + 1
    /\ drawer' = [drawer EXCEPT !.visible = FALSE]
    /\ UNCHANGED <<route, layout>>
    /\ DrawerFrame
    /\ Plain

----------------------------------------------------------------------------

Next ==
    \/ \E p \in Paths : Navigate(p)
    \/ \E u \in UsernameInputs : InputUsername(u)
    \/ \E p \in PasswordInputs : InputPassword(p)
    \/ handleLogin
    \/ LoginTimer
    \/ StaleLoginTimer
    \/ RoleAdd
    \/ \E i \in DOMAIN role.tableData : RoleHandleEdit(role.tableData[i])
    \/ \E n \in NameInputs : RoleInputName(n)
    \/ \E d \in DescriptionInputs : RoleInputDescription(d)
    \/ RoleCancel
    \/ RoleSubmitForm
    \/ \E i \in DOMAIN role.tableData : RoleHandleDelete(role.tableData[i])
    \/ \E i \in DOMAIN role.tableData : handlePermission(role.tableData[i])
    \/ \E k \in ToggleIds : ToggleNode(k)
    \/ CancelPermissions
    \/ savePermissions
    \/ PermissionAdd
    \/ \E i \in DOMAIN permission.tableData :
          PermissionHandleEdit(permission.tableData[i])
    \/ \E c \in CodeInputs : PermissionInputCode(c)
    \/ PermissionCancel
    \/ PermissionSubmitForm
    \/ \E i \in DOMAIN permission.tableData :
          PermissionHandleDelete(permission.tableData[i])
    \/ UserAdd
    \/ \E i \in DOMAIN user.tableData : UserHandleEdit(user.tableData[i])
    \/ \E u \in UserNameInputs : UserInputUsername(u)
    \/ \E w \in UserPasswordInputs : UserInputPassword(w)
    \/ UserCancel
    \/ UserSubmitForm
    \/ \E i \in DOMAIN user.tableData : UserHandleDelete(user.tableData[i])

Spec == Init /\ [][Next]_vars

\* The role page's search and pagination controls.
NextList ==
    \/ \E p \in Paths : Navigate(p)
    \/ \E f \in SearchInputs : RoleInputSearch(f)
    \/ handleSearch
    \/ resetSearch
    \/ \E val \in PageSizes : handleSizeChange(val)
    \/ \E val \in 1..MaxPage : handleCurrentChange(val)

SpecList == Init /\ [][NextList]_vars

\* The layout's profile drawer.  Vue's scheduler runs every queued render
\* and watcher job.
\* The two commands of the user menu, and one that no item carries.
Commands == {"profile", "logout", "settings"}

DrawerJobs == DrawerRender \/ WatchModelValue \/ WatchVisible

NextDrawer ==
    \/ \E p \in Paths : Navigate(p)
    \/ \E command \in Commands : handleCommand(command)
    \/ DrawerRender
    \/ WatchModelValue
    \/ WatchVisible
    \/ handleCancel
    \/ handleConfirm
    \/ DrawerClose

SpecDrawer == Init /\ [][NextDrawer]_vars /\ WF_vars(DrawerJobs)

\* The layout with its drawer and profile form, and the login page.
NextLayout ==
    \/ NextDrawer
    \/ \E field \in DOMAIN ProfileInputs :
         \E val \in ProfileInputs[field] : InputProfile(field, val)
    \/ \E u \in UsernameInputs : InputUsername(u)
    \/ \E p \in PasswordInputs : InputPassword(p)
    \/ handleLogin
    \/ LoginTimer
    \/ StaleLoginTimer

SpecLayout == Init /\ [][NextLayout]_vars /\ WF_vars(DrawerJobs)

\* The router, the layout's menu and the login page.
NextRouter ==
    \/ \E p \in Paths : Navigate(p)
    \/ \E index \in MenuItems : MenuSelect(index)
    \/ \E u \in UsernameInputs : InputUsername(u)
    \/ \E p \in PasswordInputs : InputPassword(p)
    \/ handleLogin
    \/ LoginTimer
    \/ StaleLoginTimer

SpecRouter == Init /\ [][NextRouter]_vars

\* The login page; every timer set with setTimeout fires.
NextLogin ==
    \/ \E p \in Paths : Navigate(p)
    \/ \E u \in UsernameInputs : InputUsername(u)
    \/ \E p \in PasswordInputs : InputPassword(p)
    \/ handleLogin
    \/ LoginTimer
    \/ StaleLoginTimer

SpecLogin ==
    Init /\ [][NextLogin]_vars /\ WF_vars(LoginTimer) /\ WF_vars(StaleLoginTimer)

\* CommonDrawer as a component: modelValue is a prop, and the parent that
\* creates the drawer may bind it to a value that is true or false at that
\* time (the layout's is false).
InitComponent ==
    \E val \in BOOLEAN :
        /\ route = "/dashboard"
        /\ token = ""
        /\ login = LoginInit
        /\ timers = 0
        /\ staleTimers = 0
        /\ role = RoleInit
        /\ permission = PermissionInit
        /\ user = UserInit
        /\ roleList = RoleListInit
        /\ layout = [LayoutInit EXCEPT !.profileDrawerVisible = val]
        /\ drawer = DrawerCreated(val)
        /\ sent = {}
        /\ userActions = 0
        /\ error = "none"
        /\ lastOp = NoOp
        /\ savedRoles = {}

SpecComponent == InitComponent /\ [][NextDrawer]_vars /\ WF_vars(DrawerJobs)

----------------------------------------------------------------------------
(* Properties.                                                             *)

\* C1: after setRolePermissions(id, P), the stored and displayed permission
\* set of the role is exactly P, the set checked in the tree when saving.
C1_SetThenGet ==
    lastOp.op = "role.savePermissions"
        => GetRolePermissions(lastOp.id) = role.treeChecked

C4_LastWriterWins ==
    (lastOp.op = "role.savePermissions" /\ lastOp.again)
        => /\ error = "none"
           /\ GetRolePermissions(lastOp.id) = role.treeChecked

\* C5: a create with the name of an existing role fails with ConflictError
\* and leaves the roles as they were.
C5_DuplicateNameConflict ==
    (/\ lastOp.op = "role.submitForm"
     /\ role.dialogType = "add"
     /\ role.form.name \in {RoleTableInit[i].name : i \in DOMAIN RoleTableInit})
        => /\ error = "ConflictError"
           /\ role.tableData = RoleTableInit

\* C6: role names are pairwise distinct in every reachable state.
C6_RoleNamesUnique ==
    \A i, j \in DOMAIN role.tableData :
        role.tableData[i].name = role.tableData[j].name => i = j

\* C6 witness: an edit was submitted under the name of a different role.
C6_Witness ==
    /\ lastOp.op = "role.submitForm"
    /\ role.dialogType = "edit"
    /\ \E i \in DOMAIN role.tableData :
          /\ role.tableData[i].id # role.form.id
          /\ role.tableData[i].name = role.form.name

\* C7: after deleteRole(id) no role-permission row mentions id and nothing
\* is left of the role's permission set.
C7_DeleteRoleCascades ==
    lastOp.op = "role.handleDelete"
        => /\ GetRolePermissions(lastOp.id) = {}
           /\ \A row \in AssignmentRows : row[1] # lastOp.id

C9_UnauthenticatedRejected ==
    (lastOp.op \in MutatingOps /\ token = "")
        => /\ error = "401"
           /\ role.tableData = RoleTableInit
           /\ role.checkedPermissions = CheckedPermissionsInit
           /\ permission.tableData = PermissionTableInit

\* C10: a create, update or delete of a role made with a token, while no role
\* includes the permission of that action, is answered 403.
C10_UnauthorizedRejected ==
    (/\ lastOp.op \in {"role.submitForm", "role.handleDelete"}
     /\ token # ""
     /\ \A id \in RoleIds :
           RequiredPermission(lastOp.op, role.dialogType)
               \notin GetRolePermissions(id))
        => error = "403"

\* C12: permission codes are pairwise distinct in every state and no step
\* changes the code of a permission, whether or not a role holds it.
C12_CodesUniqueAndFixed ==
    [][/\ \A i, j \in DOMAIN permission.tableData' :
            permission.tableData'[i].code = permission.tableData'[j].code
                => i = j
       /\ \A i \in DOMAIN permission.tableData :
            \A j \in DOMAIN permission.tableData' :
               permission.tableData'[j].id = permission.tableData[i].id
                   => permission.tableData'[j].code
                         = permission.tableData[i].code]_vars

\* C12 witness: an edit was submitted with a code other than the row's.
C12_Witness ==
    /\ lastOp.op = "permission.submitForm"
    /\ permission.dialogType = "edit"
    /\ \E i \in DOMAIN permission.tableData :
          /\ permission.tableData[i].id = permission.form.id
          /\ permission.tableData[i].code # permission.form.code

\* C13: a submit that has to fail (a create under the name of an existing
\* role) leaves the dialog open.
C13_FailedSubmitKeepsDialog ==
    (/\ lastOp.op = "role.submitForm"
     /\ role.dialogType = "add"
     /\ role.form.name \in RoleNames)
        => role.dialogVisible

\* C14: saving the permission dialog sends, for currentRoleId, exactly the
\* ids checked in the tree at that moment.
C14_SendsCheckedSet ==
    lastOp.op = "role.savePermissions"
        => sent = {[roleId |-> lastOp.id, permissionIds |-> role.treeChecked]}

\* C15: no user row the page holds or shows has a password field.
C15_NoPasswordInResponses ==
    \A i \in DOMAIN user.tableData : "password" \notin DOMAIN user.tableData[i]

\* C15 witness: a create was submitted with a password typed in the form.
C15_Witness ==
    /\ lastOp.op = "user.submitForm"
    /\ user.dialogType = "add"
    /\ user.form.password # ""

\* Reachability: the edit dialog always holds the id of a row of the table.
EditIdExists ==
    (role.dialogType = "edit") => role.form.id \in RoleIds

\* C16: after a search the table shows exactly the roles whose name contains
\* the filter, letter case ignored (all roles when the filter is empty).
C16_ListRolesFilters ==
    lastOp.op = "role.handleSearch"
        => Displayed
             = SelectSeq(RoleTableInit,
                         LAMBDA r : Contains(Lower(r.name),
                                             Lower(roleList.searchForm.name)))

\* C17: the token is stored and '/' is entered only by the timer of a
\* submission that passed validation; a submission is accepted (loading set,
\* timer started) only for a valid form, whatever the credentials, and a
\* rejected one changes neither token, route, loading nor the timers.
C17_LoginOnlyAfterValidation ==
    [][/\ token' # token
            => /\ token' = "mock-token"
               /\ route' = Resolve("/")
               /\ timers' + staleTimers' = (timers + staleTimers) - 1
       /\ timers' + staleTimers' > timers + staleTimers
            => /\ Valid(login.loginForm)
               /\ login'.loading
               /\ token' = token /\ route' = route
       /\ (login'.loading /\ ~login.loading) => Valid(login.loginForm)
       /\ (timers + staleTimers = 0) => token' = token]_vars

\* C17 witness: a login has gone through: the token is stored and the
\* router is at the page '/' redirects to.
C17_Witness ==
    /\ token = "mock-token"
    /\ route = Resolve("/")
    /\ timers + staleTimers = 0

\* C18: opening the permission dialog sets currentRoleId to the row's id and
\* changes nothing else; the checked ids offered are {11, 21} for every role;
\* savePermissions only closes the dialog.
C18_PermissionDialogStatic ==
    [][/\ \A id \in RoleIds : GetRolePermissions(id)' = {11, 21}
       /\ (route' = route /\ role'.permissionDialogVisible
             /\ ~role.permissionDialogVisible)
            => /\ role'.currentRoleId \in RoleIds
               /\ role' = [role EXCEPT
                             !.currentRoleId = role'.currentRoleId,
                             !.permissionDialogVisible = TRUE]
       /\ lastOp'.op = "role.savePermissions"
            => role' = [role EXCEPT !.permissionDialogVisible = FALSE]]_vars

\* C18 witness: the dialog was opened for role 2, another set was checked
\* in the tree and saved.
C18_Witness ==
    /\ lastOp.op = "role.savePermissions"
    /\ lastOp.id = 2
    /\ role.treeChecked # role.checkedPermissions

\* C19: a save of a role's permissions leaves the set of every other role,
\* the roles, the permissions and the users as they were.
C19_SaveFrame ==
    [][lastOp'.op = "role.savePermissions"
         => /\ \A id \in RoleIds \ {lastOp'.id} :
                 GetRolePermissions(id)' = GetRolePermissions(id)
            /\ role'.tableData = role.tableData
            /\ permission' = permission
            /\ user' = user]_vars

\* C19 witness: a save was made for a role while another role exists.
C19_Witness ==
    /\ lastOp.op = "role.savePermissions"
    /\ RoleIds \ {lastOp.id} # {}
    /\ role.treeChecked # CheckedPermissionsInit

\* C20: after the clicks on the drawer have ended and the pending render and
\* watchers have run, nothing is left pending (no further update:modelValue
\* is emitted) and visible equals the layout's profileDrawerVisible, for good.
C20_DrawerConverges ==
    <>[](DrawerQuiescent /\ drawer.visible = layout.profileDrawerVisible)

\* C20 witness: the drawer was opened by the parent and cancelled, and all
\* the watchers have run.
C20_Witness ==
    /\ DrawerQuiescent
    /\ \E i \in DOMAIN drawer.events : drawer.events[i][1] = "open"
    /\ \E i \in DOMAIN drawer.events : drawer.events[i][1] = "cancel"
    /\ \E i \in DOMAIN drawer.events : drawer.events[i][1] = "close"

\* The drawer was shown when event i of the log was emitted: the last 'open'
\* or 'close' before it is an 'open' (the drawer is created hidden).
ShownBefore(i) ==
    \E j \in 1..(i - 1) :
        /\ drawer.events[j][1] = "open"
        /\ \A k \in (j + 1)..(i - 1) :
               drawer.events[k][1] \notin {"open", "close"}

\* C21: a click on cancel emits 'cancel' alone in its handler and leaves
\* visible false; the watcher of visible is left pending exactly when the
\* drawer was shown before the click, and a cancel on a hidden drawer leaves
\* nothing pending.  In the log, a 'cancel' emitted while the drawer was
\* shown is followed by 'update:modelValue'(false) and 'close'; one emitted
\* while it was hidden is never followed by them.
C21_CancelEmits ==
    /\ [][drawer'.events = Append(drawer.events, <<"cancel", FALSE>>)
            => /\ ~drawer'.visible
               /\ drawer.visible <=> (drawer'.visible # drawer'.seenVisible)
               /\ ~drawer.visible => DrawerQuiescent']_vars
    /\ [](\A i \in DOMAIN drawer.events :
            (drawer.events[i][1] = "cancel" /\ i < Len(drawer.events))
              => IF ShownBefore(i)
                   THEN /\ drawer.events[i + 1] = <<"update:modelValue", FALSE>>
                        /\ i + 1 < Len(drawer.events)
                        /\ drawer.events[i + 2] = <<"close", FALSE>>
                   ELSE drawer.events[i + 1] # <<"update:modelValue", FALSE>>)

\* C21 witness: a cancel on the shown drawer was followed by its two events,
\* and a second cancel, on the hidden drawer, by none.
C21_Witness ==
    /\ DrawerQuiescent
    /\ userActions = MaxActions
    /\ \E i \in DOMAIN drawer.events :
        /\ Len(drawer.events) = i + 3
        /\ drawer.events[i] = <<"cancel", FALSE>>
        /\ drawer.events[i + 1] = <<"update:modelValue", FALSE>>
        /\ drawer.events[i + 2] = <<"close", FALSE>>
        /\ drawer.events[i + 3] = <<"cancel", FALSE>>

\* The indices of the 'open' and 'close' events of the log.
OpenClose == {i \in DOMAIN drawer.events :
                 drawer.events[i][1] \in {"open", "close"}}

\* C22: in the log of a drawer, two successive events among 'open' and
\* 'close' differ; each comes right after an 'update:modelValue' that carries
\* true for 'open' and false for 'close', and each 'update:modelValue' is
\* followed by its 'open' or 'close'; the first of them is the opposite of
\* the modelValue the drawer was created with, so that a drawer created
\* with true emits no 'open' for that.
C22_OpenCloseAlternate ==
    /\ \A i \in OpenClose : \A j \in OpenClose :
         (i < j /\ \A k \in OpenClose : ~(i < k /\ k < j))
           => drawer.events[i][1] # drawer.events[j][1]
    /\ \A i \in OpenClose :
         /\ i > 1
         /\ drawer.events[i - 1] =
              <<"update:modelValue", drawer.events[i][1] = "open">>
    /\ \A i \in DOMAIN drawer.events :
         drawer.events[i][1] = "update:modelValue"
           => /\ i < Len(drawer.events)
              /\ drawer.events[i + 1][1] =
                   (IF drawer.events[i][2] THEN "open" ELSE "close")
    /\ \A i \in OpenClose :
         (\A k \in OpenClose : i <= k)
           => drawer.events[i][1] = (IF drawer.created THEN "close" ELSE "open")

\* C22 witness: a drawer created with modelValue true has been closed and
\* opened again.
C22_Witness ==
    /\ drawer.created
    /\ Len(drawer.events) >= 4
    /\ drawer.events[2][1] = "close"
    /\ drawer.events[4][1] = "open"

\* C23: handleCommand('profile') sets profileDrawerVisible and keeps the
\* route; handleCommand('logout') goes to '/login' and changes neither
\* profileDrawerVisible nor the stored token; any other command changes
\* nothing; saveProfile clears profileDrawerVisible and keeps userProfile as
\* the user edited it.
C23_LayoutHandlers ==
    [][/\ lastOp'.op = "layout.handleCommand.profile"
          => /\ layout'.profileDrawerVisible
             /\ route' = route
             /\ token' = token
       /\ lastOp'.op = "layout.handleCommand.logout"
          => /\ route' = "/login"
             /\ layout'.profileDrawerVisible = layout.profileDrawerVisible
             /\ drawer'.visible = drawer.visible
             /\ token' = token
       /\ lastOp'.op = "layout.handleCommand.settings"
          => <<route, token, login, timers, staleTimers, role, permission,
               user, roleList, layout, drawer>>'
               = <<route, token, login, timers, staleTimers, role, permission,
                   user, roleList, layout, drawer>>
       /\ lastOp'.op = "layout.saveProfile"
          => /\ ~layout'.profileDrawerVisible
             /\ layout'.userProfile = layout.userProfile
             /\ route' = route]_vars

\* C23 witness: the user has logged out after a login and the token is
\* still stored.
C23_Witness ==
    /\ lastOp.op = "layout.handleCommand.logout"
    /\ route = "/login"
    /\ token = "mock-token"

\* C24: no navigation guard.  A click on a menu item lands on the item's
\* path, with or without a stored token: 'dashboard', 'user', 'role' and
\* 'permission' on their views, every other item on NotFound, all inside the
\* layout; only '/login' is outside the layout, and '/' is never the route
\* (it redirects to '/dashboard').
C24_NoNavigationGuard ==
    /\ [][\A index \in MenuItems :
            lastOp'.op = "layout.menu." \o index
              => /\ route' = "/" \o index
                 /\ InLayout(route')
                 /\ token' = token
                 /\ View(route') =
                      (IF index = "dashboard" THEN "Dashboard"
                       ELSE IF index \in {"user", "role", "permission"}
                              THEN index
                              ELSE "NotFound")]_vars
    /\ [](/\ route # "/"
          /\ InLayout(route) <=> route # "/login"
          /\ route \in {"/dashboard", "/user", "/role", "/permission"}
               <=> View(route) \notin {"Login", "NotFound"})

\* C24 witness: the role page has been reached from the menu with no token
\* stored.
C24_Witness ==
    /\ lastOp.op = "layout.menu.role"
    /\ route = "/role"
    /\ token = ""

\* C25: right after a click on the 'add' button of the role, permission or
\* user page, the dialog is open in add mode (for users, with the password
\* field) and its form is the empty form, whatever was done before.
C25_AddOpensAddMode ==
    /\ lastOp.op = "role.add"
         => /\ role.dialogVisible
            /\ role.dialogType = "add"
            /\ role.form = RoleInit.form
    /\ lastOp.op = "permission.add"
         => /\ permission.dialogVisible
            /\ permission.dialogType = "add"
            /\ permission.form = PermissionInit.form
    /\ lastOp.op = "user.add"
         => /\ user.dialogVisible
            /\ user.dialogType = "add"
            /\ user.form = UserInit.form

\* The setTimeout callbacks of handleLogin that have not run yet.
Pending == timers + staleTimers

\* C26: a step that adds a pending callback is a handleLogin on a valid form
\* and sets loading; a step that removes one stores the token, goes to
\* '/dashboard' (the redirect of '/') and leaves loading false, also when
\* callbacks of later submissions are still pending; no step adds or removes
\* more than one, so there is one store and one navigation per submission;
\* and loading, once true, becomes false again.
C26_LoginTimers ==
    /\ [][/\ Pending' = Pending + 1
             => /\ Valid(login.loginForm)
                /\ login'.loading
          /\ Pending = Pending' + 1
             => /\ token' = "mock-token"
                /\ route' = "/dashboard"
                /\ ~login'.loading
          /\ \/ Pending' = Pending
             \/ Pending' = Pending + 1
             \/ Pending = Pending' + 1]_vars
    /\ (login.loading ~> ~login.loading)

\* C26 witness: two submissions of the mounted login page are pending at
\* once (the second made while loading was true).
C26_Witness ==
    /\ route = "/login"
    /\ login.loading
    /\ timers >= 2

====
